---- MODULE Spec2Model ----
(***************************************************************************)
(* Model of binder/fix-notebooks.py: the two-pass notebook rewriter.       *)
(*                                                                         *)
(* A text is a sequence of symbols.  A symbol is a tuple of strings whose  *)
(* first element is its lexeme: one character ("\n", " ", "a", "#", "!")   *)
(* or one lexeme the patterns of the program treat as a unit (three backticks,       *)
(* "---", a language word, a container tag, a directive, an image          *)
(* element, an image link).  Offsets are 0-based as in the source, counted *)
(* in symbols; the program only ever compares offsets with each other.     *)
(***************************************************************************)
EXTENDS Integers, Sequences, FiniteSets, TLC

VARIABLES stored, nb_dir, data, loaded, changed, new_cells, split_result,
          pc, i, run

vars == <<stored, nb_dir, data, loaded, changed, new_cells, split_result,
          pc, i, run>>

\* ---------------------------------------------------------------- bounds

MaxChunks == 3

MaxRuns == 2

MaxSplitChunks == 3

MaxZoneChunks == 4

MaxBodyLines == 3

\* --------------------------------------------------------------- symbols

NL == <<"\n">>

SP == <<" ">>

\* three backticks
FENCE == <<"[fence]">>

HASH == <<"#">>

BANG == <<"!">>

DASHES == <<"---">>

\* {/* cspell:ignore ... */}
DIRECTIVE == <<"{/*c*/}">>

W(c) == <<c>>

\* <tag> or <tag ...> : what open_pat matches at its first offset
OpenSym(tag) == <<"<", tag>>

\* </tag>
CloseSym(tag) == <<"</", tag>>

\* <Image src="path" alt="alt" /> ; path is a sequence of components,
\* a leading "/" component for each leading separator
ImageSym(alt, path) == <<"<Image/>", alt>> \o path

\* ![alt](path)
LinkSym(alt, path) == <<"![]()", alt>> \o path

\* <img src="path" alt="alt" />
ImgHtmlSym(alt, path) == <<"<img/>", alt>> \o path

WordLexemes == {"a", "b", "A", "B", "C", "python", "py", "bash", "shell", "sh", "js", "Python"}

\* \w
IsWord(c) == Len(c) = 1 /\ c[1] \in WordLexemes

\* \s
IsSpace(c) == c = NL \/ c = SP

\* str.lower() on one symbol
LowerSym(c) == IF c = W("Python") THEN W("python") ELSE c

Lower(s) == [k \in 1..Len(s) |-> LowerSym(s[k])]

\* ------------------------------------------------------ string primitives

Max(S) == CHOOSE m \in S : \A n \in S : n <= m

Min(S) == CHOOSE m \in S : \A n \in S : m <= n

\* s[o]
At(s, o) == s[o + 1]

\* s[a:b]
Slice(s, a, b) == SubSeq(s, a + 1, b)

RECURSIVE SpanSP(_, _)
\* length of the run of spaces starting at offset o: [ ]*
SpanSP(s, o) == IF o < Len(s) /\ At(s, o) = SP THEN 1 + SpanSP(s, o + 1) ELSE 0

RECURSIVE SpanWord(_, _)
\* \w*
SpanWord(s, o) == IF o < Len(s) /\ IsWord(At(s, o)) THEN 1 + SpanWord(s, o + 1) ELSE 0

RECURSIVE SpanWS(_, _)
\* \s*
SpanWS(s, o) == IF o < Len(s) /\ IsSpace(At(s, o)) THEN 1 + SpanWS(s, o + 1) ELSE 0

RECURSIVE SpanNL(_, _)
\* \n*
SpanNL(s, o) == IF o < Len(s) /\ At(s, o) = NL THEN 1 + SpanNL(s, o + 1) ELSE 0

\* ^ under re.MULTILINE
LineStart(s, o) == o = 0 \/ At(s, o - 1) = NL

\* $ under re.MULTILINE
LineEnd(s, o) == o = Len(s) \/ At(s, o) = NL

RECURSIVE LStrip(_)
\* str.lstrip()
LStrip(s) == IF s # <<>> /\ IsSpace(Head(s)) THEN LStrip(Tail(s)) ELSE s

RECURSIVE RStrip(_)
\* str.rstrip()
RStrip(s) == IF s # <<>> /\ IsSpace(s[Len(s)]) THEN RStrip(SubSeq(s, 1, Len(s) - 1)) ELSE s

\* str.strip()
Strip(s) == RStrip(LStrip(s))

RECURSIVE LStripNL(_)
LStripNL(s) == IF s # <<>> /\ Head(s) = NL THEN LStripNL(Tail(s)) ELSE s

RECURSIVE RStripNL(_)
RStripNL(s) == IF s # <<>> /\ s[Len(s)] = NL THEN RStripNL(SubSeq(s, 1, Len(s) - 1)) ELSE s

\* str.strip("\n")
StripNL(s) == RStripNL(LStripNL(s))

RECURSIVE SplitNL(_)
\* str.split("\n"): the lines without their terminators, at least one
SplitNL(s) ==
    LET nls == {k \in 1..Len(s) : s[k] = NL}
    IN  IF nls = {} THEN <<s>>
        ELSE LET k == Min(nls)
             IN  <<SubSeq(s, 1, k - 1)>> \o SplitNL(SubSeq(s, k + 1, Len(s)))

RECURSIVE JoinNL(_)
\* "\n".join(lines)
JoinNL(lines) ==
    IF lines = <<>> THEN <<>>
    ELSE IF Len(lines) = 1 THEN lines[1]
    ELSE lines[1] \o <<NL>> \o JoinNL(Tail(lines))

RECURSIVE SplitLines(_)
\* str.splitlines(keepends=True)
SplitLines(s) ==
    LET nls == {k \in 1..Len(s) : s[k] = NL}
    IN  IF s = <<>> THEN <<>>
        ELSE IF nls = {} THEN <<s>>
        ELSE LET k == Min(nls)
             IN  <<SubSeq(s, 1, k)>> \o SplitLines(SubSeq(s, k + 1, Len(s)))

RECURSIVE Join(_)
\* "".join(fragments)
Join(frags) == IF frags = <<>> THEN <<>> ELSE Head(frags) \o Join(Tail(frags))

\* ------------------------------------------------------------- constants

EXTRACT_AS_CODE == {<<W("python")>>, <<W("py")>>}

EXTRACT_AS_SHELL == {<<W("bash")>>, <<W("shell")>>, <<W("sh")>>}

EXTRACTABLE_LANGS == EXTRACT_AS_CODE \cup EXTRACT_AS_SHELL

CONTAINER_TAGS == <<"Admonition", "Tabs", "OperatingSystemTabs", "details">>

\* ---------------------------------------------------- FENCED_CODE_RE

NoMatch == [start |-> -1, end |-> -1, lang |-> <<>>, indent |-> 0, body |-> <<>>]

\* ^(?P=indent)[fence][ ]*$ at offset e, for an indent of n spaces
CloseFenceAt(s, e, n) ==
    /\ LineStart(s, e)
    /\ e + n < Len(s)
    /\ \A k \in e..(e + n - 1) : At(s, k) = SP
    /\ At(s, e + n) = FENCE
    /\ LineEnd(s, e + n + 1 + SpanSP(s, e + n + 1))

\* FENCED_CODE_RE.match(s, o): the match starting exactly at offset o.
\* [ ]* and \w* are followed by symbols outside their class, so only their
\* longest runs can match; \s*\n ends at the last newline of the whitespace
\* run (the lines it skips are blank and cannot hold the closing fence);
\* the lazy body ends at the first closing fence.
FenceMatch(s, o) ==
    LET n  == SpanSP(s, o)
        f  == o + n
        w  == SpanWord(s, f + 1)
        q  == f + 1 + w
        r  == SpanWS(s, q)
        nl == {p \in q..(q + r - 1) : At(s, p) = NL}
        b  == Max(nl) + 1
        cl == {e \in b..Len(s) : CloseFenceAt(s, e, n)}
        e  == Min(cl)
    IN  IF ~LineStart(s, o) \/ f >= Len(s) THEN NoMatch
        ELSE IF At(s, f) # FENCE \/ nl = {} THEN NoMatch
        ELSE IF cl = {} THEN NoMatch
        ELSE [start  |-> o,
              end    |-> e + n + 1 + SpanSP(s, e + n + 1),
              lang   |-> Slice(s, f + 1, q),
              indent |-> n,
              body   |-> Slice(s, b, e)]

RECURSIVE FenceIter(_, _)
\* FENCED_CODE_RE.finditer(s): non-overlapping matches, left to right
FenceIter(s, o) ==
    IF o >= Len(s) THEN <<>>
    ELSE LET m == FenceMatch(s, o)
         IN  IF m.start >= 0 THEN <<m>> \o FenceIter(s, m.end)
             ELSE FenceIter(s, o + 1)

Fences(s) == FenceIter(s, 0)

\* ---------------------------------------------- _find_no_extract_zones

RECURSIVE OpenEvents(_, _, _)
\* for m in open_pat.finditer(source): events.append((m.start(), "open"))
OpenEvents(s, tag, o) ==
    IF o >= Len(s) THEN <<>>
    ELSE (IF At(s, o) = OpenSym(tag) THEN << <<o, "open">> >> ELSE <<>>)
         \o OpenEvents(s, tag, o + 1)

RECURSIVE CloseEvents(_, _, _)
\* for m in close_pat.finditer(source): events.append((m.end(), "close"))
CloseEvents(s, tag, o) ==
    IF o >= Len(s) THEN <<>>
    ELSE (IF At(s, o) = CloseSym(tag) THEN << <<o + 1, "close">> >> ELSE <<>>)
         \o CloseEvents(s, tag, o + 1)

RECURSIVE InsertByPos(_, _)
\* place e after every element whose position is <= its own (stable)
InsertByPos(sorted, e) ==
    IF sorted = <<>> THEN <<e>>
    ELSE IF Head(sorted)[1] <= e[1] THEN <<Head(sorted)>> \o InsertByPos(Tail(sorted), e)
    ELSE <<e>> \o sorted

RECURSIVE SortByPos(_, _)
\* events.sort(key=lambda e: e[0]) : a stable sort
SortByPos(evs, acc) ==
    IF evs = <<>> THEN acc ELSE SortByPos(Tail(evs), InsertByPos(acc, Head(evs)))

RECURSIVE ScanEventsAlwaysReopen(_, _, _, _)
\* the depth-counter loop with the depth test on an open tag left out:
\* every open tag restarts the region
ScanEventsAlwaysReopen(evs, depth, open_pos, zones) ==
    IF evs = <<>> THEN zones
    ELSE LET pos  == Head(evs)[1]
             kind == Head(evs)[2]
         IN  IF kind = "open"
             THEN ScanEventsAlwaysReopen(Tail(evs), depth + 1, pos, zones)
             ELSE ScanEventsAlwaysReopen(Tail(evs), depth - 1, open_pos,
                             IF depth - 1 = 0
                             THEN Append(zones, <<open_pos, pos>>)
                             ELSE zones)

RECURSIVE ScanEvents(_, _, _, _)
\* the depth-counter loop over one tag's sorted events
ScanEvents(evs, depth, open_pos, zones) ==
    IF evs = <<>> THEN zones
    ELSE LET pos  == Head(evs)[1]
             kind == Head(evs)[2]
         IN  IF kind = "open"
             THEN ScanEvents(Tail(evs), depth + 1,
                             IF depth = 0 THEN pos ELSE open_pos, zones)
             ELSE ScanEvents(Tail(evs), depth - 1, open_pos,
                             IF depth - 1 = 0
                             THEN Append(zones, <<open_pos, pos>>)
                             ELSE zones)

TagZones(s, tag) ==
    ScanEvents(SortByPos(OpenEvents(s, tag, 0) \o CloseEvents(s, tag, 0), <<>>),
               0, 0, <<>>)

RECURSIVE AllTagZones(_, _)
AllTagZones(s, t) ==
    IF t > Len(CONTAINER_TAGS) THEN <<>>
    ELSE TagZones(s, CONTAINER_TAGS[t]) \o AllTagZones(s, t + 1)

\* tuple order of (start, end)
ZoneLess(a, b) == a[1] < b[1] \/ (a[1] = b[1] /\ a[2] < b[2])

RECURSIVE InsertZone(_, _)
InsertZone(sorted, z) ==
    IF sorted = <<>> THEN <<z>>
    ELSE IF ZoneLess(z, Head(sorted)) THEN <<z>> \o sorted
    ELSE <<Head(sorted)>> \o InsertZone(Tail(sorted), z)

RECURSIVE SortZones(_, _)
\* zones.sort()
SortZones(zs, acc) ==
    IF zs = <<>> THEN acc ELSE SortZones(Tail(zs), InsertZone(acc, Head(zs)))

RECURSIVE MergeZones(_, _)
\* the merge loop over the sorted zones
MergeZones(zs, merged) ==
    IF zs = <<>> THEN merged
    ELSE LET start == Head(zs)[1]
             end   == Head(zs)[2]
             last  == merged[Len(merged)]
         IN  IF merged # <<>> /\ start <= last[2]
             THEN MergeZones(Tail(zs),
                      [merged EXCEPT ![Len(merged)] =
                          <<last[1], IF last[2] >= end THEN last[2] ELSE end>>])
             ELSE MergeZones(Tail(zs), Append(merged, <<start, end>>))

_find_no_extract_zones(source) ==
    MergeZones(SortZones(AllTagZones(source, 1), <<>>), <<>>)

_in_no_extract_zone(pos, zones) ==
    \E k \in 1..Len(zones) : zones[k][1] <= pos /\ pos < zones[k][2]

\* ---------------------------------------------------------- _strip_indent

\* line[:n] == fence_indent, the indent being n spaces
HasIndent(line, n) == Len(line) >= n /\ \A k \in 1..n : line[k] = SP

\* one turn of the loop over body.split("\n")
StripIndentLine(line, n) ==
    IF Strip(line) = <<>> THEN <<>>
    ELSE IF HasIndent(line, n) THEN SubSeq(line, n + 1, Len(line))
    ELSE LStrip(line)

\* textwrap.dedent: whitespace-only lines are emptied, then the longest
\* common leading whitespace of the other lines is removed from each line
Dedent(text) ==
    LET raw     == SplitNL(text)
        lines   == [k \in 1..Len(raw) |->
                        IF raw[k] # <<>> /\ SpanSP(raw[k], 0) = Len(raw[k])
                        THEN <<>> ELSE raw[k]]
        indents == {SpanSP(lines[k], 0) : k \in {j \in 1..Len(lines) : lines[j] # <<>>}}
        margin  == IF indents = {} THEN 0 ELSE Min(indents)
    IN  JoinNL([k \in 1..Len(lines) |->
                    IF margin > 0 /\ HasIndent(lines[k], margin)
                    THEN SubSeq(lines[k], margin + 1, Len(lines[k]))
                    ELSE lines[k]])

_strip_indent(body, n) ==
    LET lines    == SplitNL(body)
        stripped == [k \in 1..Len(lines) |-> StripIndentLine(lines[k], n)]
        result   == StripNL(Dedent(IF n = 0 THEN body ELSE JoinNL(stripped)))
    IN  IF result # <<>> THEN result \o <<NL>> ELSE <<>>

\* ------------------------------------------------------ _add_shell_prefix

\* the prefixing loop without the test for comment lines
_add_shell_prefix_all(code) ==
    LET lines == SplitNL(code)
    IN  JoinNL([k \in 1..Len(lines) |->
                   IF Strip(lines[k]) = <<>> THEN lines[k] ELSE <<BANG>> \o lines[k]])

_add_shell_prefix(code) ==
    LET lines == SplitNL(code)
    IN  JoinNL([k \in 1..Len(lines) |->
                   LET s == Strip(lines[k])
                   IN  IF s = <<>> \/ Head(s) = HASH THEN lines[k]
                       ELSE <<BANG>> \o lines[k]])

\* ------------------------------------------------------------------ cells

\* str(idx) inside the f-strings
Str(n) == <<"0", "1", "2", "3", "4", "5", "6", "7", "8", "9">>[n + 1]

\* the markdown identifier without its index
MdIdNoIndex(base_id, idx) == base_id \o <<"-md", Str(0)>>

\* f"{base_id}-md{idx}"
MdId(base_id, idx) == base_id \o <<"-md", Str(idx)>>

\* f"{base_id}-code{idx}"
CodeId(base_id, idx) == base_id \o <<"-code", Str(idx)>>

\* a cell without an "id" key has id <<>>; cell.get("id", "split")
BaseId(cell) == IF cell.id = <<>> THEN <<"split">> ELSE cell.id

\* the markdown cell made with text.strip() in place of text.strip("\n")
_make_md_cell_strip(text, cell_id) ==
    [cell_type |-> "markdown", id |-> cell_id,
     source |-> SplitLines(Strip(text) \o <<NL>>), outputs |-> <<>>]

_make_md_cell(text, cell_id) ==
    LET t == StripNL(text)
        u == IF t # <<>> /\ t[Len(t)] = NL THEN t ELSE t \o <<NL>>
    IN  [cell_type |-> "markdown", id |-> cell_id,
         source |-> SplitLines(u), outputs |-> <<>>]

_make_code_cell(code, cell_id) ==
    [cell_type |-> "code", id |-> cell_id,
     source |-> SplitLines(code), outputs |-> <<>>]

\* --------------------------------------------------- _split_markdown_cell

\* lang in EXTRACTABLE_LANGS and not _in_no_extract_zone(m.start(), zones)
IsCandidate(m, zones) ==
    Lower(m.lang) \in EXTRACTABLE_LANGS /\ ~_in_no_extract_zone(m.start, zones)

Extractions(source) ==
    LET zones == _find_no_extract_zones(source)
        Keep(m) == IsCandidate(m, zones)
    IN  SelectSeq(Fences(source), Keep)

\* the markdown cell emitted for any text that is not empty
EmitMdNonEmpty(md_text, cell_id) ==
    IF md_text # <<>> THEN <<_make_md_cell(md_text, cell_id)>> ELSE <<>>

\* if md_text.strip(): result_cells.append(_make_md_cell(md_text, ...))
EmitMd(md_text, cell_id) ==
    IF Strip(md_text) # <<>> THEN <<_make_md_cell(md_text, cell_id)>> ELSE <<>>

\* the code cell emitted without the test for a blank body
EmitCodeAlways(m, cell_id) ==
    LET code == _strip_indent(m.body, m.indent)
    IN  <<_make_code_cell(IF Lower(m.lang) \in EXTRACT_AS_SHELL
                          THEN _add_shell_prefix(code) ELSE code,
                          cell_id)>>

\* code = _strip_indent(body, indent); if not code.strip(): continue;
\* ! prefixed for the shell languages; append the code cell
EmitCode(m, cell_id) ==
    LET code == _strip_indent(m.body, m.indent)
    IN  IF Strip(code) = <<>> THEN <<>>
        ELSE <<_make_code_cell(IF Lower(m.lang) \in EXTRACT_AS_SHELL
                               THEN _add_shell_prefix(code) ELSE code,
                               cell_id)>>

RECURSIVE SplitLoop(_, _, _, _, _, _)
\* the loop over enumerate(extractions), idx 0-based, then the trailing text
SplitLoop(source, base_id, ex, idx, prev_end, result_cells) ==
    IF idx = Len(ex)
    THEN result_cells \o EmitMd(Slice(source, prev_end, Len(source)), MdId(base_id, Len(ex)))
    ELSE LET m == ex[idx + 1]
         IN  SplitLoop(source, base_id, ex, idx + 1, m.end,
                       result_cells
                       \o EmitMd(Slice(source, prev_end, m.start), MdId(base_id, idx))
                       \o EmitCode(m, CodeId(base_id, idx)))

_split_markdown_cell(cell) ==
    LET source      == Join(cell.source)
        extractions == Extractions(source)
    IN  IF extractions = <<>> THEN <<cell>>
        ELSE SplitLoop(source, BaseId(cell), extractions, 0, 0, <<>>)


\* ----------------------------------------------------------------- paths

RECURSIVE LStripSlash(_)
\* abs_path.lstrip("/")
LStripSlash(path) ==
    IF path # <<>> /\ Head(path) = "/" THEN LStripSlash(Tail(path)) ELSE path

RECURSIVE CommonPrefixLen(_, _)
CommonPrefixLen(a, b) ==
    IF a # <<>> /\ b # <<>> /\ Head(a) = Head(b)
    THEN 1 + CommonPrefixLen(Tail(a), Tail(b)) ELSE 0

\* os.path.relpath(path, start), both relative to the same directory and
\* free of "." and ".." components
RelPath(path, start) ==
    LET c   == CommonPrefixLen(path, start)
        rel == [k \in 1..(Len(start) - c) |-> ".."] \o SubSeq(path, c + 1, Len(path))
    IN  IF rel = <<>> THEN <<".">> ELSE rel

_make_relative(abs_path, notebook_dir) == RelPath(LStripSlash(abs_path), notebook_dir)

\* ---------------------------------------------------------------- Pass 1

Lexeme(c) == c[1]

\* the alt group of an image element or an image link
AltOf(c) == c[2]

\* the src group of an image element, the path of an image link
PathOf(c) == SubSeq(c, 3, Len(c))

\* IMAGE_RE matches exactly the image-element symbols
IsImage(c) == Lexeme(c) = "<Image/>"

\* !\[([^\]]*)\]\((/(?:docs|learning)/images/[^)]+)\)
IsAbsLink(c) ==
    /\ Lexeme(c) = "![]()"
    /\ Len(PathOf(c)) >= 4
    /\ PathOf(c)[1] = "/"
    /\ PathOf(c)[2] \in {"docs", "learning"}
    /\ PathOf(c)[3] = "images"
    /\ PathOf(c)[4] # "/"

\* end offset of the match of FRONTMATTER_RE (\A---\n.*?^---\n*), 0 if none
FrontmatterEnd(s) ==
    LET cl == {e \in 2..(Len(s) - 1) : LineStart(s, e) /\ At(s, e) = DASHES}
    IN  IF Len(s) >= 2 /\ At(s, 0) = DASHES /\ At(s, 1) = NL /\ cl # {}
        THEN Min(cl) + 1 + SpanNL(s, Min(cl) + 1)
        ELSE 0

\* FRONTMATTER_RE.sub("", source)
StripFrontmatter(s) == Slice(s, FrontmatterEnd(s), Len(s))

RECURSIVE StripDirectives(_, _)
\* CSPELL_RE.sub("", source): ^\{/\*.*?\*/\}\s*\n? , ^ taken in the
\* original text, each match running over the whitespace that follows it
StripDirectives(s, o) ==
    IF o >= Len(s) THEN <<>>
    ELSE IF LineStart(s, o) /\ At(s, o) = DIRECTIVE
    THEN StripDirectives(s, o + 1 + SpanWS(s, o + 1))
    ELSE <<At(s, o)>> \o StripDirectives(s, o + 1)

\* fix_md_image on one match of IMAGE_RE
fix_md_image(c, notebook_dir) == LinkSym(AltOf(c), _make_relative(PathOf(c), notebook_dir))

\* IMAGE_RE.sub(fix_md_image, source)
FixImages(s, notebook_dir) ==
    [k \in 1..Len(s) |-> IF IsImage(s[k]) THEN fix_md_image(s[k], notebook_dir) ELSE s[k]]

\* the re.sub over existing markdown images with absolute paths
FixLinks(s, notebook_dir) ==
    [k \in 1..Len(s) |->
        IF IsAbsLink(s[k])
        THEN LinkSym(AltOf(s[k]), _make_relative(PathOf(s[k]), notebook_dir))
        ELSE s[k]]

\* the four rewrites of a markdown cell's text, idx the cell's 0-based index
NormalizeSource(source, idx, notebook_dir) ==
    LET s1 == IF idx = 0 THEN StripFrontmatter(source) ELSE source
        s2 == StripDirectives(s1, 0)
        s3 == FixImages(s2, notebook_dir)
    IN  FixLinks(s3, notebook_dir)

\* if source != original
SourceChanged(source, original) == source # original

\* the markdown branch of the Pass 1 loop body
FixMarkdown(cell, idx, notebook_dir) ==
    LET original == Join(cell.source)
        source   == NormalizeSource(original, idx, notebook_dir)
    IN  IF cell.cell_type = "markdown" /\ SourceChanged(source, original)
        THEN [cell EXCEPT !.source = SplitLines(source)]
        ELSE cell

MarkdownChanged(cell, idx, notebook_dir) ==
    /\ cell.cell_type = "markdown"
    /\ SourceChanged(NormalizeSource(Join(cell.source), idx, notebook_dir),
                     Join(cell.source))

\* an output: its "data" mapping, has_plain / has_html telling which of
\* text/plain and text/html it holds, each a list of fragments
\* m = IMAGE_RE.search(joined)
OutputImages(output) ==
    LET joined == Join(output.plain)
    IN  {k \in 1..Len(joined) : IsImage(joined[k])}

\* the output rewrite without output["data"].pop("text/plain", None)
FixOutputKeepPlain(output, notebook_dir) ==
    LET joined == Join(output.plain)
        hits   == {k \in 1..Len(joined) : IsImage(joined[k])}
        m      == joined[Min(hits)]
        rel    == _make_relative(PathOf(m), notebook_dir)
    IN  IF output.has_plain /\ hits # {}
        THEN [output EXCEPT !.has_html = TRUE,
                            !.html = << <<ImgHtmlSym(AltOf(m), rel)>> >>]
        ELSE output

\* the body of the loop over cell.get("outputs", [])
FixOutput(output, notebook_dir) ==
    LET joined == Join(output.plain)
        hits   == OutputImages(output)
        m      == joined[Min(hits)]
        rel    == _make_relative(PathOf(m), notebook_dir)
    IN  IF output.has_plain /\ hits # {}
        THEN [output EXCEPT !.has_html = TRUE,
                            !.html = << <<ImgHtmlSym(AltOf(m), rel)>> >>,
                            !.has_plain = FALSE,
                            !.plain = <<>>]
        ELSE output

OutputChanged(output) == output.has_plain /\ OutputImages(output) # {}

\* one turn of the Pass 1 loop
Pass1Cell(cell, idx, notebook_dir) ==
    LET c == FixMarkdown(cell, idx, notebook_dir)
    IN  [c EXCEPT !.outputs =
            [k \in 1..Len(c.outputs) |-> FixOutput(c.outputs[k], notebook_dir)]]

Pass1Changed(cell, idx, notebook_dir) ==
    \/ MarkdownChanged(cell, idx, notebook_dir)
    \/ \E k \in 1..Len(cell.outputs) : OutputChanged(cell.outputs[k])

\* the split test written len(split_result) >= 1
SplitChangedAtLeastOne(result) == Len(result) >= 1

\* if len(split_result) > 1: changed = True
SplitChanged(result) == Len(result) > 1

\* ------------------------------------------------------------ the inputs

MdCell(cell_id, text) ==
    [cell_type |-> "markdown", id |-> cell_id, source |-> SplitLines(text), outputs |-> <<>>]

CodeCell(cell_id, text, outputs) ==
    [cell_type |-> "code", id |-> cell_id, source |-> SplitLines(text), outputs |-> outputs]

Output(has_plain, plain, has_html, html) ==
    [has_plain |-> has_plain, plain |-> plain, has_html |-> has_html, html |-> html]

RECURSIVE TextsOf(_, _)
\* the concatenations of at most n chunks
TextsOf(chunks, n) ==
    IF n = 0 THEN {<<>>}
    ELSE {<<>>} \cup {c \o t : c \in chunks, t \in TextsOf(chunks, n - 1)}

AbsImagePath == <<"/", "docs", "images", "x.png">>

TextLine == <<W("a"), NL>>

PyBlock == <<FENCE, W("python"), NL, W("a"), NL, FENCE, NL>>

EmptyPyBlock == <<FENCE, W("python"), NL, FENCE, NL>>

JsBlock == <<FENCE, W("js"), NL, W("a"), NL, FENCE, NL>>

PipelineChunks ==
    { TextLine,
      <<DASHES, NL>>,
      <<DIRECTIVE, NL>>,
      <<DIRECTIVE>>,
      <<ImageSym("alt", AbsImagePath), NL>>,
      <<LinkSym("alt", AbsImagePath), NL>>,
      PyBlock,
      EmptyPyBlock,
      JsBlock }

ImageText == <<W("a"), SP, ImageSym("alt", AbsImagePath), NL>>

PipelineOutputs ==
    { Output(TRUE, <<ImageText>>, FALSE, <<>>),
      Output(TRUE, <<TextLine, ImageText>>, TRUE, <<TextLine>>),
      Output(TRUE, <<TextLine>>, FALSE, <<>>),
      Output(FALSE, <<>>, TRUE, <<TextLine>>),
      Output(FALSE, <<>>, FALSE, <<>>) }

OtherCells(cell_id) ==
    {CodeCell(cell_id, TextLine, <<o>>) : o \in PipelineOutputs}
    \cup {[cell_type |-> "raw", id |-> cell_id, source |-> <<TextLine>>, outputs |-> <<>>]}

PipelineDocs ==
    {<<MdCell(<<"c1">>, t)>> : t \in TextsOf(PipelineChunks, MaxChunks)}
    \cup {<<MdCell(<<"c1">>, t), c>> :
            t \in TextsOf(PipelineChunks, MaxChunks - 1),
            c \in OtherCells(<<"c2">>)
                  \cup {MdCell(<<"c2">>, u) : u \in TextsOf(PipelineChunks, 1)}}
    \cup {<<c, MdCell(<<"c2">>, t)>> :
            c \in OtherCells(<<"c1">>), t \in TextsOf(PipelineChunks, MaxChunks - 1)}

BashBlock == <<FENCE, W("bash"), NL, W("a"), NL, FENCE, NL>>

BlankPyBlock == <<FENCE, W("python"), NL, SP, NL, FENCE, NL>>

IndentedJsBlock == <<SP, FENCE, W("js"), NL, SP, W("a"), NL, SP, FENCE, NL>>

SplitChunks ==
    { TextLine, PyBlock, BashBlock, JsBlock, BlankPyBlock, IndentedJsBlock,
      <<FENCE, W("python"), NL>>, <<FENCE, NL>> }

\* "A\n[fence]python\nprint(1)\n[fence]\nB\n[fence]bash\nls\n[fence]\nC\n"
ExampleSplitText ==
    <<W("A"), NL>> \o <<FENCE, W("python"), NL, W("a"), NL, FENCE, NL>>
    \o <<W("B"), NL>> \o BashBlock \o <<W("C"), NL>>

CellIds == {<<"c1">>, <<>>}

SplitDocs ==
    {<<MdCell(id, t)>> :
        id \in CellIds,
        t \in TextsOf(SplitChunks, MaxSplitChunks) \cup {ExampleSplitText}}

ZoneChunks ==
    { TextLine, PyBlock,
      <<OpenSym("Tabs"), NL>>, <<CloseSym("Tabs"), NL>>,
      <<OpenSym("details"), NL>>, <<CloseSym("details"), NL>>,
      <<CloseSym("Tabs"), OpenSym("Tabs"), NL>> }

ZoneDocs == {<<MdCell(<<"c1">>, t)>> : t \in TextsOf(ZoneChunks, MaxZoneChunks)}

BodyLines ==
    { <<W("a")>>, <<HASH, SP, W("a")>>, <<>>, <<SP, SP, W("a")>>, <<SP, HASH, W("a")>> }

RECURSIVE BodiesOf(_)
\* the bodies of at most n lines, each line with its newline
BodiesOf(n) ==
    IF n = 0 THEN {<<>>}
    ELSE {<<>>} \cup {l \o <<NL>> \o b : l \in BodyLines, b \in BodiesOf(n - 1)}

ShellLangs == {"bash", "sh", "shell", "python", "Python"}

Spaces(n) == [k \in 1..n |-> SP]

\* a fenced block whose fences are indented by n spaces
FencedBlock(n, lang, body) ==
    Spaces(n) \o <<FENCE, W(lang), NL>> \o body \o Spaces(n) \o <<FENCE, NL>>

\* "# comment\nls -la\n\nexport X=1\n" in a bash block
ExampleShellText ==
    FencedBlock(0, "bash",
        <<HASH, SP, W("a"), NL>> \o <<W("a"), NL>> \o <<NL>> \o <<W("b"), NL>>)

ShellDocs ==
    {<<MdCell(<<"c1">>, t)>> :
        t \in {FencedBlock(n, lang, b) :
                  n \in {0, 1}, lang \in ShellLangs, b \in BodiesOf(MaxBodyLines)}
              \cup {ExampleShellText}}

NbDirs == {<<"docs", "a">>}

\* ------------------------------------------------------ process_notebook

TypeOK ==
    /\ pc \in {"load", "pass1", "pass2", "write", "done"}
    /\ changed \in BOOLEAN
    /\ run \in 1..MaxRuns
    /\ i \in Nat

InitWith(docs) ==
    /\ stored \in docs
    /\ nb_dir \in NbDirs
    /\ data = <<>>
    /\ loaded = <<>>
    /\ changed = FALSE
    /\ new_cells = <<>>
    /\ split_result = <<>>
    /\ pc = "load"
    /\ i = 0
    /\ run = 1

Init == InitWith(PipelineDocs)

\* data = json.loads(path.read_text()); changed = False
Load ==
    /\ pc = "load"
    /\ data' = stored
    /\ loaded' = stored
    /\ changed' = FALSE
    /\ new_cells' = <<>>
    /\ split_result' = <<>>
    /\ i' = 0
    /\ pc' = "pass1"
    /\ UNCHANGED <<stored, nb_dir, run>>

\* one turn of: for i, cell in enumerate(data.get("cells", []))
Pass1Step ==
    /\ pc = "pass1"
    /\ i < Len(data)
    /\ data' = [data EXCEPT ![i + 1] = Pass1Cell(data[i + 1], i, nb_dir)]
    /\ changed' = (changed \/ Pass1Changed(data[i + 1], i, nb_dir))
    /\ i' = i + 1
    /\ UNCHANGED <<stored, nb_dir, loaded, new_cells, split_result, pc, run>>

\* the Pass 1 loop ends; new_cells = []
Pass1Done ==
    /\ pc = "pass1"
    /\ i = Len(data)
    /\ new_cells' = <<>>
    /\ i' = 0
    /\ pc' = "pass2"
    /\ UNCHANGED <<stored, nb_dir, data, loaded, changed, split_result, run>>

\* one turn of the Pass 2 loop
Pass2Step ==
    /\ pc = "pass2"
    /\ i < Len(data)
    /\ IF data[i + 1].cell_type = "markdown"
       THEN /\ split_result' = _split_markdown_cell(data[i + 1])
            /\ changed' = (changed \/ SplitChanged(split_result'))
            /\ new_cells' = new_cells \o split_result'
       ELSE /\ new_cells' = Append(new_cells, data[i + 1])
            /\ UNCHANGED <<split_result, changed>>
    /\ i' = i + 1
    /\ UNCHANGED <<stored, nb_dir, data, loaded, pc, run>>

\* data["cells"] = new_cells
Pass2Done ==
    /\ pc = "pass2"
    /\ i = Len(data)
    /\ data' = new_cells
    /\ pc' = "write"
    /\ UNCHANGED <<stored, nb_dir, loaded, changed, new_cells, split_result, i, run>>

\* if changed: path.write_text(json.dumps(data)) ; return changed
Write ==
    /\ pc = "write"
    /\ stored' = IF changed THEN data ELSE stored
    /\ pc' = "done"
    /\ UNCHANGED <<nb_dir, data, loaded, changed, new_cells, split_result, i, run>>

\* the script is run again over the same file
Rerun ==
    /\ pc = "done"
    /\ run < MaxRuns
    /\ run' = run + 1
    /\ pc' = "load"
    /\ UNCHANGED <<stored, nb_dir, data, loaded, changed, new_cells, split_result, i>>

Next ==
    \/ Load
    \/ Pass1Step
    \/ Pass1Done
    \/ Pass2Step
    \/ Pass2Done
    \/ Write
    \/ Rerun

Spec == Init /\ [][Next]_vars

InitSplit == InitWith(SplitDocs)

SpecSplit == InitSplit /\ [][Next]_vars

InitZones == InitWith(ZoneDocs)

SpecZones == InitZones /\ [][Next]_vars

InitShell == InitWith(ShellDocs)

SpecShell == InitShell /\ [][Next]_vars


\* ------------------------------------------------------------ the claims

Range(f) == {f[k] : k \in DOMAIN f}

\* the Pass 2 loop has just split the markdown cell data[i]
AfterSplit == pc = "pass2" /\ i >= 1 /\ data[i].cell_type = "markdown"

\* the cell kinds and texts of a cell list, in order
View(cells) == [k \in 1..Len(cells) |-> <<cells[k].cell_type, Join(cells[k].source)>>]

\* text b occurs in text t as one contiguous piece
Contains(t, b) == \E a \in 0..(Len(t) - Len(b)) : Slice(t, a, a + Len(b)) = b

\* the text between candidate k and candidate k + 1 of ex (k = 0: from the
\* cell start; k = Len(ex): to the cell end)
SegStart(ex, k) == IF k = 0 THEN 0 ELSE ex[k].end

SegEnd(s, ex, k) == IF k = Len(ex) THEN Len(s) ELSE ex[k + 1].start

Segment(s, ex, k) == Slice(s, SegStart(ex, k), SegEnd(s, ex, k))

\* the extracted body of a candidate as a code cell holds it
ExtractedCode(m) ==
    LET code == _strip_indent(m.body, m.indent)
    IN  IF Lower(m.lang) \in EXTRACT_AS_SHELL THEN _add_shell_prefix(code) ELSE code

\* candidate number idx (1-based) of cell was emitted as a code cell
EmittedAsCode(cell, idx) ==
    \E j \in 1..Len(split_result) :
        /\ split_result[j].cell_type = "code"
        /\ split_result[j].id = BaseId(cell) \o <<"-code", Str(idx - 1)>>

\* ---- C1

\* C1: idempotence of the full pipeline: every run of process_notebook after
\* the first reports modified = false and leaves the stored document as the
\* previous run left it.
C1_Idempotent ==
    (pc = "done" /\ run >= 2) => (changed = FALSE /\ stored = loaded)

\* ---- C2

\* C2: the modified flag is exact: process_notebook returns true, and
\* writes, if and only if the document the two passes left in memory differs
\* from the loaded document.
C2_ModifiedExact ==
    pc = "done" =>
        /\ changed <=> data # loaded
        /\ stored = IF changed THEN data ELSE loaded

\* ---- C3

TagSet == Range(CONTAINER_TAGS)

OpenOffsets(s, tag) == {o \in 0..(Len(s) - 1) : At(s, o) = OpenSym(tag)}

CloseOffsets(s, tag) == {o \in 0..(Len(s) - 1) : At(s, o) = CloseSym(tag)}

\* offset x lies between an open tag and the close tag that follows it
BetweenTags(s, tag, x) ==
    \E p \in OpenOffsets(s, tag) :
        LET after == {c \in CloseOffsets(s, tag) : c > p}
        IN  after # {} /\ p < x /\ x < Min(after)

\* open tags minus close tags of the container in the first x symbols
TagBalance(s, tag, x) ==
    Cardinality({o \in OpenOffsets(s, tag) : o < x})
    - Cardinality({c \in CloseOffsets(s, tag) : c < x})

\* no close tag without an open tag before it, and no open tag left open
TagsBalanced(s, tag) ==
    /\ \A x \in 0..Len(s) : TagBalance(s, tag, x) >= 0
    /\ TagBalance(s, tag, Len(s)) = 0

\* C3 as claimed: a fenced block whose opening fence lies between an open
\* tag of a declared container and the close tag that follows it is never
\* emitted as a code cell, whatever other tags the cell holds.
C3_ContainerExclusion ==
    AfterSplit =>
        LET s  == Join(data[i].source)
            ex == Extractions(s)
        IN  \A tag \in TagSet : \A idx \in 1..Len(ex) :
                BetweenTags(s, tag, ex[idx].start) => ~EmittedAsCode(data[i], idx)

\* C3 amended: the same, for a container whose tags balance in the cell (no
\* prefix of the text holds more close tags than open tags of it, and the
\* whole text holds as many close tags as open tags).
C3_ContainerExclusionBalanced ==
    AfterSplit =>
        LET s  == Join(data[i].source)
            ex == Extractions(s)
        IN  \A tag \in TagSet : \A idx \in 1..Len(ex) :
                (TagsBalanced(s, tag) /\ BetweenTags(s, tag, ex[idx].start))
                    => ~EmittedAsCode(data[i], idx)

\* a cell was split around a container whose balanced tags enclose a python
\* block that stayed in a markdown cell
C3_Witness ==
    /\ AfterSplit
    /\ Len(split_result) > 1
    /\ LET s == Join(data[i].source)
       IN  \E tag \in TagSet : \E m \in Range(Fences(s)) :
               /\ TagsBalanced(s, tag)
               /\ BetweenTags(s, tag, m.start)
               /\ Lower(m.lang) \in EXTRACTABLE_LANGS
               /\ \E j \in 1..Len(split_result) :
                      /\ split_result[j].cell_type = "markdown"
                      /\ Contains(Join(split_result[j].source), Slice(s, m.start, m.end))

\* ---- C4

\* slot j of the claimed order md0, code1, md1, ..., codek, mdk: the odd
\* slots hold the text segments that are not blank, the even slots the
\* extracted bodies (all of them, or only those that are not blank)
OrderSlot(s, ex, j, drop_blank_code) ==
    IF j % 2 = 1
    THEN LET seg == Segment(s, ex, (j - 1) \div 2)
         IN  IF Strip(seg) # <<>>
             THEN << <<"markdown", StripNL(seg) \o <<NL>> >> >>
             ELSE <<>>
    ELSE LET code == ExtractedCode(ex[j \div 2])
         IN  IF drop_blank_code /\ Strip(code) = <<>>
             THEN <<>>
             ELSE << <<"code", code>> >>

ClaimedOrder(s, drop_blank_code) ==
    LET ex == Extractions(s)
    IN  Join([j \in 1..(2 * Len(ex) + 1) |-> OrderSlot(s, ex, j, drop_blank_code)])

ExampleSplitView ==
    << <<"markdown", <<W("A"), NL>> >>,
       <<"code", <<W("a"), NL>> >>,
       <<"markdown", <<W("B"), NL>> >>,
       <<"code", <<BANG, W("a"), NL>> >>,
       <<"markdown", <<W("C"), NL>> >> >>

\* C4 as claimed: a split cell yields md0, code1, md1, ..., codek, mdk in
\* document order, md(i) present exactly when the text between the
\* candidates is not blank, code(i) holding the extracted body of candidate i.
C4_SplitOrdering ==
    (AfterSplit /\ Extractions(Join(data[i].source)) # <<>>) =>
        View(split_result) = ClaimedOrder(Join(data[i].source), FALSE)

\* C4 amended: the same order, code(i) present exactly when the extracted
\* body of candidate i is not blank; the example text gives the five cells.
C4_SplitOrderingNonBlank ==
    (AfterSplit /\ Extractions(Join(data[i].source)) # <<>>) =>
        /\ View(split_result) = ClaimedOrder(Join(data[i].source), TRUE)
        /\ Join(data[i].source) = ExampleSplitText => View(split_result) = ExampleSplitView

\* the example text was split into its five cells
C4_Witness ==
    /\ AfterSplit
    /\ Join(data[i].source) = ExampleSplitText
    /\ Len(split_result) = 5

\* ---- C5

MarkdownTexts(doc) ==
    {Join(doc[k].source) : k \in {j \in 1..Len(doc) : doc[j].cell_type = "markdown"}}

OutputTexts(doc) ==
    UNION {{Join(doc[k].outputs[j].plain) : j \in 1..Len(doc[k].outputs)} : k \in 1..Len(doc)}

HasSymbol(t, P(_)) == \E k \in 1..Len(t) : P(t[k])

IsDirective(c) == c = DIRECTIVE

\* no frontmatter, no directives, no custom Image elements in markdown
\* cells or in outputs, no fenced blocks in a recognized language
NoOpDocument(doc) ==
    /\ \A t \in MarkdownTexts(doc) :
          /\ FrontmatterEnd(t) = 0
          /\ ~HasSymbol(t, IsDirective)
          /\ ~HasSymbol(t, IsImage)
          /\ \A m \in Range(Fences(t)) : Lower(m.lang) \notin EXTRACTABLE_LANGS
    /\ \A t \in OutputTexts(doc) : ~HasSymbol(t, IsImage)

HasAbsLinks(doc) == \E t \in MarkdownTexts(doc) : HasSymbol(t, IsAbsLink)

\* C5 as claimed: a document with no frontmatter, no directives, no custom
\* Image elements and no recognized fenced blocks is reported unmodified and
\* is not written, also when it holds image links with absolute paths.
C5_NoOpRoundTrip ==
    (pc = "done" /\ NoOpDocument(loaded)) => (changed = FALSE /\ stored = loaded)

\* C5 amended: the same for a document that also holds no markdown image
\* link with an absolute /docs/images or /learning/images path.
C5_NoOpRoundTripNoLinks ==
    (pc = "done" /\ NoOpDocument(loaded) /\ ~HasAbsLinks(loaded)) =>
        (changed = FALSE /\ stored = loaded /\ data = loaded)

\* a two-cell document with an unrecognized fenced block and a plain-text
\* output went through both passes unmodified
C5_Witness ==
    /\ pc = "done"
    /\ NoOpDocument(loaded)
    /\ ~HasAbsLinks(loaded)
    /\ changed = FALSE
    /\ Len(loaded) = 2
    /\ \E t \in MarkdownTexts(loaded) : Fences(t) # <<>>
    /\ \E t \in OutputTexts(loaded) : t # <<>>

\* ---- C6

C7_EmptyBlockDrop ==
    AfterSplit =>
        LET s    == Join(data[i].source)
            ex   == Extractions(s)
            base == BaseId(data[i])
        IN  ex # <<>> =>
            /\ \A idx \in 1..Len(ex) :
                  Strip(_strip_indent(ex[idx].body, ex[idx].indent)) = <<>>
                      => ~EmittedAsCode(data[i], idx)
            /\ \A k \in 0..Len(ex) :
                  Strip(Segment(s, ex, k)) # <<>> =>
                      \E j \in 1..Len(split_result) :
                          /\ split_result[j].cell_type = "markdown"
                          /\ split_result[j].id = base \o <<"-md", Str(k)>>
                          /\ StripNL(Join(split_result[j].source)) = StripNL(Segment(s, ex, k))
            /\ \A j \in 1..Len(split_result) :
                  split_result[j].cell_type = "code" =>
                      Strip(Join(split_result[j].source)) # <<>>

\* text, a whitespace-only python block, text: two markdown cells, no code
C7_Witness ==
    /\ AfterSplit
    /\ Join(data[i].source) = TextLine \o BlankPyBlock \o TextLine
    /\ View(split_result) = << <<"markdown", TextLine>>, <<"markdown", TextLine>> >>

\* ---- C8

IsCommentOrBlank(line) == Strip(line) = <<>> \/ Head(LStrip(line)) = HASH

ExampleShellCode ==
    <<HASH, SP, W("a"), NL>> \o <<BANG, W("a"), NL>> \o <<NL>> \o <<BANG, W("b"), NL>>

\* C8: the code cell of a bash, shell or sh candidate holds the lines of the
\* extracted body in order, each line that is not blank and not a comment
\* with ! prepended, the others unchanged; the code cell of a python or py
\* candidate holds the extracted body unprefixed.
C8_ShellPrefix ==
    AfterSplit =>
        LET s    == Join(data[i].source)
            ex   == Extractions(s)
            base == BaseId(data[i])
        IN  /\ \A idx \in 1..Len(ex) : \A j \in 1..Len(split_result) :
                  (/\ split_result[j].cell_type = "code"
                   /\ split_result[j].id = base \o <<"-code", Str(idx - 1)>>) =>
                  LET body == SplitNL(_strip_indent(ex[idx].body, ex[idx].indent))
                      out  == SplitNL(Join(split_result[j].source))
                  IN  IF Lower(ex[idx].lang) \in EXTRACT_AS_SHELL
                      THEN /\ Len(out) = Len(body)
                           /\ \A k \in 1..Len(body) :
                                  out[k] = IF IsCommentOrBlank(body[k]) THEN body[k]
                                           ELSE <<BANG>> \o body[k]
                      ELSE out = body
            /\ s = ExampleShellText =>
                  View(split_result) = << <<"code", ExampleShellCode>> >>

\* the example body was extracted and prefixed
C8_Witness ==
    /\ AfterSplit
    /\ Join(data[i].source) = ExampleShellText
    /\ View(split_result) = << <<"code", ExampleShellCode>> >>

\* ---- C9

\* C9: the identifiers of the cells one split returns are pairwise distinct,
\* and each is the original cell's id ("split" for a cell without one)
\* followed by -md<N> or -code<N>.
C9_GeneratedIds ==
    AfterSplit =>
        LET ex   == Extractions(Join(data[i].source))
            base == IF data[i].id = <<>> THEN <<"split">> ELSE data[i].id
        IN  ex # <<>> =>
            /\ \A j, k \in 1..Len(split_result) :
                  j # k => split_result[j].id # split_result[k].id
            /\ \A j \in 1..Len(split_result) :
                  \E n \in 0..Len(ex) :
                      split_result[j].id \in {base \o <<"-md", Str(n)>>,
                                              base \o <<"-code", Str(n)>>}

\* a split returned at least two markdown cells and a code cell
C9_Witness ==
    /\ AfterSplit
    /\ data[i].id # <<>>
    /\ Len(split_result) >= 3
    /\ Cardinality({j \in 1..Len(split_result) : split_result[j].cell_type = "markdown"}) >= 2

\* ---- C10

\* Pass 1 has treated every cell
AfterPass1 == pc = "pass2" /\ i = 0

\* C10: after Pass 1 an output whose loaded plain text held the Image
\* element has no text/plain and has a text/html made of one <img> element
\* (the relative path, the alt text); every other output is unchanged.
C10_OutputRepresentation ==
    AfterPass1 =>
        /\ Len(data) = Len(loaded)
        /\ \A k \in 1..Len(loaded) :
              /\ Len(data[k].outputs) = Len(loaded[k].outputs)
              /\ \A j \in 1..Len(loaded[k].outputs) :
                    LET before == loaded[k].outputs[j]
                        after  == data[k].outputs[j]
                        joined == Join(before.plain)
                    IN  IF before.has_plain /\ HasSymbol(joined, IsImage)
                        THEN /\ ~after.has_plain
                             /\ after.plain = <<>>
                             /\ after.has_html
                             /\ Len(after.html) = 1
                             /\ Len(after.html[1]) = 1
                             /\ \E c \in Range(joined) :
                                    /\ IsImage(c)
                                    /\ after.html[1][1] =
                                         <<"<img/>", AltOf(c)>>
                                         \o RelPath(LStripSlash(PathOf(c)), nb_dir)
                        ELSE after = before

\* an output that held the Image element beside an older text/html holds
\* only the <img> element after Pass 1
C10_Witness ==
    /\ AfterPass1
    /\ \E k \in 1..Len(loaded) : \E j \in 1..Len(loaded[k].outputs) :
          /\ loaded[k].outputs[j].has_plain
          /\ loaded[k].outputs[j].has_html
          /\ HasSymbol(Join(loaded[k].outputs[j].plain), IsImage)
          /\ data[k].outputs[j].html =
                << <<<<"<img/>", "alt", "..", "images", "x.png">>>> >>

====
